---- MODULE Spec2Model ----
(***************************************************************************)
(* A model of pdf_rename.py: extraction of a title and an author from a    *)
(* PDF's document-info dictionary and XMP packet (_get_info,               *)
(* _get_xmp_metadata, XmpParser), synthesis of the new file name           *)
(* (_new_filename, _sanitize) and the batch loop of main.                  *)
(*                                                                         *)
(* A str is a sequence of characters (one-character strings, EmDash        *)
(* standing for U+2014), a bytes object a sequence of integers 0..255.     *)
(***************************************************************************)
EXTENDS Integers, Sequences, FiniteSets, TLC

VARIABLES pc, is_author, destination, Ntot, idx, cur,
          title, author, xmpt, xmpa, newf, exc,
          Nmissing, Nfiled, Nerrors, Nrenamed

vars == <<pc, is_author, destination, Ntot, idx, cur,
          title, author, xmpt, xmpa, newf, exc,
          Nmissing, Nfiled, Nerrors, Nrenamed>>

(***************************************************************************)
(* Bounds of the model.                                                    *)
(***************************************************************************)
\* longest exhaustively enumerated title handed to _new_filename
MaxTitleLen == 3
\* titles of NameLimit-LongPad .. NameLimit+LongPad characters are tried
LongPad == 2
\* the longest title tried
HugeTitleLen == 10000
\* most candidate files in one batch
MaxFiles == 2

(***************************************************************************)
(* Characters and the str methods the program uses.                        *)
(***************************************************************************)
EmDash == "EMDASH"
UpperCase == <<"A","B","C","D","E","F","G","H","I","J","K","L","M",
               "N","O","P","Q","R","S","T","U","V","W","X","Y","Z">>
LowerCase == <<"a","b","c","d","e","f","g","h","i","j","k","l","m",
               "n","o","p","q","r","s","t","u","v","w","x","y","z">>
Digits == <<"0","1","2","3","4","5","6","7","8","9">>

Range(s) == {s[i] : i \in DOMAIN s}

isspace(c) == c \in {" ", "\t", "\n"}
isalnum(c) == c \in Range(UpperCase) \cup Range(LowerCase) \cup Range(Digits)
isupper(c) == c \in Range(UpperCase)

lowerCh(c) ==
  IF isupper(c)
  THEN LowerCase[CHOOSE i \in DOMAIN UpperCase : UpperCase[i] = c]
  ELSE c

\* lower() left out
lower_mut(s) == s

\* str.lower()
lower(s) == [i \in 1..Len(s) |-> lowerCh(s[i])]

\* str.replace(old, "") for a one-character old
NotColon(c) == c # ":"
replace_colon(s) == SelectSeq(s, NotColon)

\* str.strip(): leading and trailing whitespace removed
strip(s) ==
  LET body == {i \in 1..Len(s) : ~isspace(s[i])}
  IN IF body = {} THEN <<>>
     ELSE LET lo == CHOOSE i \in body : \A j \in body : i <= j
              hi == CHOOSE i \in body : \A j \in body : j <= i
          IN SubSeq(s, lo, hi)

\* the k-th smallest element of a set of integers
Nth(P, k) == CHOOSE p \in P : Cardinality({q \in P : q < p}) = k - 1

\* str.split(" "): cut at every single space, empty pieces kept
split_space(s) ==
  LET P == {i \in 1..Len(s) : s[i] = " "}
      n == Cardinality(P)
      cut(k) == IF k = 0 THEN 0 ELSE IF k = n + 1 THEN Len(s) + 1 ELSE Nth(P, k)
  IN [k \in 1..(n + 1) |-> SubSeq(s, cut(k - 1) + 1, cut(k) - 1)]

\* str.split(): whitespace-delimited tokens, no empty token
split(s) ==
  LET S == {i \in 1..Len(s) : ~isspace(s[i]) /\ (i = 1 \/ isspace(s[i - 1]))}
      E == {i \in 1..Len(s) : ~isspace(s[i]) /\ (i = Len(s) \/ isspace(s[i + 1]))}
  IN [k \in 1..Cardinality(S) |-> SubSeq(s, Nth(S, k), Nth(E, k))]

\* sep.join(parts)
RECURSIVE join(_, _)
join(sep, parts) ==
  IF parts = <<>> THEN <<>>
  ELSE IF Len(parts) = 1 THEN parts[1]
  ELSE parts[1] \o sep \o join(sep, Tail(parts))

\* s[:n]
Take(s, n) == SubSeq(s, 1, IF Len(s) < n THEN Len(s) ELSE n)

(***************************************************************************)
(* Python values.                                                          *)
(***************************************************************************)
\* a value has its type and, by type, the characters of a str (val), the
\* bytes of a bytes object (raw), the entries of a list (items) or the
\* [k, v] entries of a dict in insertion order (pairs)
Value(type, val, raw, items, pairs) ==
  [type |-> type, val |-> val, raw |-> raw, items |-> items, pairs |-> pairs]
None == Value("NoneType", <<>>, <<>>, <<>>, <<>>)
Str(s) == Value("str", s, <<>>, <<>>, <<>>)
Bytes(b) == Value("bytes", <<>>, b, <<>>, <<>>)
List(l) == Value("list", <<>>, <<>>, l, <<>>)
Dict(d) == Value("dict", <<>>, <<>>, <<>>, d)
IsNone(v) == v.type = "NoneType"

\* bool(v) for the values the program tests
truthy(v) ==
  CASE v.type = "NoneType" -> FALSE
    [] v.type = "str" -> v.val # <<>>
    [] v.type = "bytes" -> v.raw # <<>>
    [] v.type = "list" -> v.items # <<>>
    [] v.type = "dict" -> v.pairs # <<>>
    [] OTHER -> TRUE

(***************************************************************************)
(* _sanitize and _new_filename.                                            *)
(***************************************************************************)
keep == {" ", ".", "_", "-", EmDash}
Kept(x) == x \in keep \/ isalnum(x)
_sanitize(s) == strip(SelectSeq(s, Kept))

NameLimit == 250
Ext == <<".", "p", "d", "f">>

\* the cut to NameLimit made before the author is put in front
_new_filename_mut(t, au) ==
  LET title1 == replace_colon(lower(t))
      n1 == Take(join(<<"-">>, split_space(strip(title1))), NameLimit)
      n2 == IF ~IsNone(au)
            THEN lower(_sanitize(lower(au.val))) \o <<".">> \o n1
            ELSE n1
  IN n2 \o Ext

\* the body of _new_filename; the sanitized title n0 is computed and then
\* overwritten by the dash-joined title
_new_filename(t, au) ==
  LET title1 == replace_colon(lower(t))
      n0 == _sanitize(title1)
      n1 == join(<<"-">>, split_space(strip(title1)))
      n2 == IF ~IsNone(au)
            THEN lower(_sanitize(lower(au.val))) \o <<".">> \o n1
            ELSE n1
  IN Take(n2, NameLimit) \o Ext

(***************************************************************************)
(* bytes.decode('utf-8'), for ASCII, the three-byte encoding of the        *)
(* em-dash and invalid bytes.                                              *)
(***************************************************************************)
\* the characters of codes 32..126
Ascii == <<" ","!","\"","#","$","%","&","'","(",")","*","+",",","-",".","/",
           "0","1","2","3","4","5","6","7","8","9",":",";","<","=",">","?",
           "@","A","B","C","D","E","F","G","H","I","J","K","L","M","N","O",
           "P","Q","R","S","T","U","V","W","X","Y","Z","[","\\","]","^","_",
           "GRAVE","a","b","c","d","e","f","g","h","i","j","k","l","m","n","o",
           "p","q","r","s","t","u","v","w","x","y","z","{","|","}","~">>

chr(b) ==
  CASE b = 9 -> "\t"
    [] b = 10 -> "\n"
    [] b >= 32 /\ b <= 126 -> Ascii[b - 31]
    [] OTHER -> "CTRL"

ord(c) ==
  CASE c = "\t" -> 9
    [] c = "\n" -> 10
    [] OTHER -> 31 + CHOOSE i \in DOMAIN Ascii : Ascii[i] = c

\* str.encode('utf-8'), used to write the byte strings of the inputs
RECURSIVE encode(_)
encode(s) ==
  IF s = <<>> THEN <<>>
  ELSE (IF s[1] = EmDash THEN <<226, 128, 148>> ELSE <<ord(s[1])>>)
       \o encode(Tail(s))

\* [ok, val]: ok = FALSE stands for UnicodeDecodeError; out is the text
\* decoded so far
RECURSIVE DecodeFrom(_, _)
DecodeFrom(b, out) ==
  IF b = <<>> THEN [ok |-> TRUE, val |-> out]
  ELSE IF b[1] < 128
  THEN DecodeFrom(Tail(b), Append(out, chr(b[1])))
  ELSE IF Len(b) >= 3 /\ b[1] = 226 /\ b[2] = 128 /\ b[3] = 148
  THEN DecodeFrom(SubSeq(b, 4, Len(b)), Append(out, EmDash))
  ELSE [ok |-> FALSE, val |-> <<>>]

decode(b) == DecodeFrom(b, <<>>)

(***************************************************************************)
(* XmpParser.  A packet is [wellformed, rdf, descs]: whether ET.XML        *)
(* accepts it, whether the tree has an rdf:RDF element, and the            *)
(* rdf:Description blocks, each a sequence of elements                     *)
(* [uri, tag, text, children]; a child is a container [name, li] with name *)
(* "Bag", "Seq" or "Alt" and li a sequence of [lang, text].                *)
(***************************************************************************)
URI_RDF == "http://www.w3.org/1999/02/22-rdf-syntax-ns#"
URI_DC == "http://purl.org/dc/elements/1.1/"
URI_XAP == "http://ns.adobe.com/xap/1.0/"
URI_PDF == "http://ns.adobe.com/pdf/1.3/"
URI_XAPMM == "http://ns.adobe.com/xap/1.0/mm/"
URI_PDFX == "http://ns.adobe.com/pdfx/1.3/"
URI_PRISM == "http://prismstandard.org/namespaces/basic/2.0/"
URI_CROSSMARK == "http://crossref.org/crossmark/1.0/"
URI_RIGHTS == "http://ns.adobe.com/xap/1.0/rights/"
URI_XML == "http://www.w3.org/XML/1998/namespace"

NS_MAP ==
  (URI_RDF :> "rdf") @@ (URI_DC :> "dc") @@ (URI_XAP :> "xap") @@
  (URI_PDF :> "pdf") @@ (URI_XAPMM :> "xapmm") @@ (URI_PDFX :> "pdfx") @@
  (URI_PRISM :> "prism") @@ (URI_CROSSMARK :> "crossmark") @@
  (URI_RIGHTS :> "rights") @@ (URI_XML :> "xml")

\* an element's uri is NoUri when its tag does not start with "{"; the
\* namespace key is then Python's None, written NsNone
NoUri == ""
NsNone == "None"

_parse_tag(el) ==
  IF el.uri # NoUri
  THEN [ns |-> IF el.uri \in DOMAIN NS_MAP THEN NS_MAP[el.uri] ELSE el.uri,
        tag |-> el.tag]
  ELSE [ns |-> NsNone, tag |-> el.tag]

\* el.find(RDF_NS + name) is not None
HasChild(el, name) == \E i \in DOMAIN el.children : el.children[i].name = name

\* el.findall(RDF_NS + name + '/' + RDF_NS + 'li'), in document order
RECURSIVE LiOf(_, _)
LiOf(children, name) ==
  IF children = <<>> THEN <<>>
  ELSE (IF children[1].name = name THEN children[1].li ELSE <<>>)
       \o LiOf(Tail(children), name)

\* d[k] = v on a dict kept as a sequence of [k, v] in insertion order
DictSet(d, k, v) ==
  IF \E i \in DOMAIN d : d[i].k = k
  THEN [i \in DOMAIN d |-> IF d[i].k = k THEN [k |-> k, v |-> v] ELSE d[i]]
  ELSE Append(d, [k |-> k, v |-> v])

RECURSIVE AltDict(_, _)
AltDict(lis, d) ==
  IF lis = <<>> THEN d
  ELSE AltDict(Tail(lis), DictSet(d, lis[1].lang, lis[1].text))

_parse_value(el) ==
  IF HasChild(el, "Bag")
  THEN LET lis == LiOf(el.children, "Bag")
       IN List([i \in 1..Len(lis) |-> lis[i].text])
  ELSE IF HasChild(el, "Seq")
  THEN LET lis == LiOf(el.children, "Seq")
       IN List([i \in 1..Len(lis) |-> lis[i].text])
  ELSE IF HasChild(el, "Alt")
  THEN Dict(AltDict(LiOf(el.children, "Alt"), <<>>))
  ELSE el.text

\* meta[ns][tag] = value on the defaultdict(dict), a function from namespace
\* keys to functions from tags to values
MetaSet(m, ns, tag, value) ==
  LET inner == IF ns \in DOMAIN m THEN m[ns] ELSE <<>>
      inner2 == [t \in DOMAIN inner \cup {tag} |->
                   IF t = tag THEN value ELSE inner[t]]
  IN [n \in DOMAIN m \cup {ns} |-> IF n = ns THEN inner2 ELSE m[n]]

RECURSIVE MetaOfEls(_, _)
MetaOfEls(els, m) ==
  IF els = <<>> THEN m
  ELSE LET p == _parse_tag(els[1])
       IN MetaOfEls(Tail(els), MetaSet(m, p.ns, p.tag, _parse_value(els[1])))

RECURSIVE MetaOfDescs(_, _)
MetaOfDescs(descs, m) ==
  IF descs = <<>> THEN m
  ELSE MetaOfDescs(Tail(descs), MetaOfEls(descs[1], m))

\* XmpParser(xmp).meta: [ok, meta]; ok = FALSE when ET.XML raises ParseError
\* or rdftree is None and rdftree.findall raises AttributeError
xmp_to_dict(xmp) ==
  IF ~xmp.wellformed \/ ~xmp.rdf
  THEN [ok |-> FALSE, meta |-> <<>>]
  ELSE [ok |-> TRUE, meta |-> MetaOfDescs(xmp.descs, <<>>)]

(***************************************************************************)
(* The metadata reconciler: _get_metadata, _resolve_objref, _au_last_name, *)
(* _get_xmp_metadata and _get_info.  A file is                             *)
(* [parse, info, has_metadata, xmp, base]: whether PDFDocument(parser)     *)
(* succeeds, the list doc.info of info dictionaries (functions from        *)
(* "Title"/"Author" to values), whether 'Metadata' is in doc.catalog, the  *)
(* packet of the metadata stream and the file's base name.  A call that    *)
(* can raise returns a record whose exc field names the exception, "none"  *)
(* when it returns normally.                                               *)
(***************************************************************************)
\* an indirect reference holds its target as its only item
ObjRef(v) == Value("PDFObjRef", <<>>, <<>>, <<v>>, <<>>)
Document(f) == [type |-> "PDFDocument", doc |-> f]

\* {} on PDFSyntaxError or an empty doc.info, else the document
_get_metadata(f) ==
  IF f.parse = "PDFSyntaxError" THEN Dict(<<>>)
  ELSE IF Len(f.info) = 0 THEN Dict(<<>>)
  ELSE Document(f)

_resolve_objref(ref) == IF ref.type = "PDFObjRef" THEN ref.items[1] ELSE ref

\* name.split()[-1]; IndexError when split() is empty
_au_last_name(name) ==
  LET toks == split(name)
  IN IF toks = <<>> THEN [exc |-> "IndexError", val |-> <<>>]
     ELSE [exc |-> "none", val |-> toks[Len(toks)]]

x_default == Str(<<"x", "-", "d", "e", "f", "a", "u", "l", "t">>)

HasKey(d, k) == \E i \in DOMAIN d : d[i].k = k
DictGet(d, k) == d[CHOOSE i \in DOMAIN d : d[i].k = k].v
DictKeys(d) == [i \in DOMAIN d |-> d[i].k]

HasField(md, tag) == "dc" \in DOMAIN md /\ tag \in DOMAIN md["dc"]

\* lines 141-152: t after the first try statement
XmpTitle(md) ==
  IF ~HasField(md, "title") THEN None
  ELSE LET titleval == md["dc"]["title"]
       IN CASE titleval.type = "dict" ->
                 IF HasKey(titleval.pairs, x_default)
                 THEN DictGet(titleval.pairs, x_default)
                 ELSE None
            [] titleval.type = "str" -> titleval
            [] titleval.type = "bytes" -> Str(decode(titleval.raw).val)
            [] OTHER -> None

\* lines 154-169: [exc, a] after the second try statement
XmpAuthor(md) ==
  IF ~HasField(md, "creator") THEN [exc |-> "none", a |-> None]
  ELSE LET a0 == md["dc"]["creator"]
           a1 == IF a0.type = "bytes" THEN Str(decode(a0.raw).val) ELSE a0
           a2 == IF a1.type = "str" THEN List(<<a1>>) ELSE a1
       IN IF a2.type = "NoneType" THEN [exc |-> "TypeError", a |-> None]
          ELSE LET items == IF a2.type = "dict" THEN DictKeys(a2.pairs) ELSE a2.items
                   a3 == SelectSeq(items, truthy)
               IN IF Len(a3) > 1
                  THEN LET first == _au_last_name(a3[1].val)
                           last == _au_last_name(a3[Len(a3)].val)
                       IN IF first.exc # "none" THEN [exc |-> first.exc, a |-> None]
                          ELSE IF last.exc # "none" THEN [exc |-> last.exc, a |-> None]
                          ELSE [exc |-> "none",
                                a |-> Str(first.val \o <<" ">> \o last.val)]
                  ELSE IF Len(a3) = 1
                  THEN LET only == _au_last_name(a3[1].val)
                       IN IF only.exc # "none" THEN [exc |-> only.exc, a |-> None]
                          ELSE [exc |-> "none", a |-> Str(only.val)]
                  ELSE [exc |-> "none", a |-> None]

_get_xmp_metadata(doc) ==
  LET parsed == xmp_to_dict(doc.doc.xmp)
  IN IF ~parsed.ok THEN [exc |-> "none", t |-> None, a |-> None]
     ELSE LET au == XmpAuthor(parsed.meta)
          IN [exc |-> au.exc, t |-> XmpTitle(parsed.meta), a |-> au.a]

\* lines 179-195: the decoded info field, None when the key is missing, the
\* value has no decode method or its bytes are not UTF-8
InfoField(info, key) ==
  IF key \notin DOMAIN info THEN None
  ELSE LET v == _resolve_objref(info[key])
       IN IF v.type # "bytes" THEN None
          ELSE LET d == decode(v.raw)
               IN IF d.ok THEN Str(d.val) ELSE None

untitled == <<"u", "n", "t", "i", "t", "l", "e", "d">>

\* the title is not trimmed
TitleCleanup_mut(t) ==
  IF t.type = "str"
  THEN IF lower(t.val) = untitled THEN None ELSE t
  ELSE t

\* lines 206-209
TitleCleanup(t) ==
  IF t.type = "str"
  THEN LET s == strip(t.val)
       IN IF lower(s) = untitled THEN None ELSE Str(s)
  ELSE t

\* lines 201-204 without their two tests: the XMP values always replace the
\* document-info values
_get_info_mut(f) ==
  LET doc == _get_metadata(f)
  IN IF doc.type # "PDFDocument"
     THEN [exc |-> "AttributeError", title |-> None, author |-> None,
           xmpt |-> None, xmpa |-> None]
     ELSE LET info == doc.doc.info[1]
              title0 == InfoField(info, "Title")
              author0 == InfoField(info, "Author")
              x == IF doc.doc.has_metadata THEN _get_xmp_metadata(doc)
                   ELSE [exc |-> "none", t |-> None, a |-> None]
              t1 == _resolve_objref(x.t)
              a1 == _resolve_objref(x.a)
          IN IF x.exc # "none"
             THEN [exc |-> x.exc, title |-> None, author |-> None,
                   xmpt |-> None, xmpa |-> None]
             ELSE [exc |-> "none",
                   title |-> TitleCleanup(IF doc.doc.has_metadata THEN t1 ELSE title0),
                   author |-> IF doc.doc.has_metadata THEN a1 ELSE author0,
                   xmpt |-> t1, xmpa |-> a1]

_get_info(f) ==
  LET doc == _get_metadata(f)
  IN IF doc.type # "PDFDocument"
     THEN [exc |-> "AttributeError", title |-> None, author |-> None,
           xmpt |-> None, xmpa |-> None]
     ELSE LET info == doc.doc.info[1]
              title0 == InfoField(info, "Title")
              author0 == InfoField(info, "Author")
              x == IF doc.doc.has_metadata THEN _get_xmp_metadata(doc)
                   ELSE [exc |-> "none", t |-> None, a |-> None]
              t1 == _resolve_objref(x.t)
              a1 == _resolve_objref(x.a)
          IN IF x.exc # "none"
             THEN [exc |-> x.exc, title |-> None, author |-> None,
                   xmpt |-> None, xmpa |-> None]
             ELSE [exc |-> "none",
                   title |-> TitleCleanup(IF truthy(t1) THEN t1 ELSE title0),
                   author |-> IF truthy(a1) THEN a1 ELSE author0,
                   xmpt |-> t1, xmpa |-> a1]

(***************************************************************************)
(* The inputs: info dictionaries, XMP packets and files.                   *)
(***************************************************************************)
s_quantum_foo == <<"Q","u","a","n","t","u","m"," ","F","o","o">>
s_foo_bar == <<" ","F","o","o",":"," ","B","a","r"," ">>
s_Untitled == <<"U","n","t","i","t","l","e","d">>
s_a_slash_b == <<"a","/","b">>
s_a_smith == <<"A","."," ","S","m","i","t","h">>
s_jane_doe == <<"J","a","n","e"," ","D","o","e">>
s_bob_ray == <<"B","o","b"," ","R","a","y">>
s_ann_lee == <<"A","n","n"," ","L","e","e">>
s_ed_poe == <<"E","d"," ","P","o","e">>
s_x_title == <<"X"," ","T","i","t","l","e">>
s_plain == <<"P","l","a","i","n">>
s_en == <<"e","n">>
s_paper == <<"p","a","p","e","r">>
s_hello_world == <<"H","e","l","l","o"," ","W","o","r","l","d">>

\* a key the info dictionary does not have
Absent == Value("absent", <<>>, <<>>, <<>>, <<>>)

\* the Title values tried: a missing key, byte strings (one to trim, one
\* "Untitled", one not UTF-8), a value without a decode method, a reference
TitleVals ==
  << Absent,
     Bytes(encode(s_quantum_foo)),
     Bytes(encode(s_foo_bar)),
     Bytes(encode(s_Untitled)),
     Bytes(<<81, 255>>),
     Str(s_plain),
     ObjRef(Bytes(encode(s_a_slash_b))) >>

AuthorVals ==
  << Absent,
     Bytes(encode(s_a_smith)),
     Bytes(<<255>>),
     ObjRef(Bytes(encode(s_jane_doe))) >>

InfoOf(t, a) ==
  [k \in {x \in {"Title"} : t # Absent} \cup {x \in {"Author"} : a # Absent} |->
     IF k = "Title" THEN t ELSE a]

Li(lang, text) == [lang |-> lang, text |-> text]
El(uri, tag, text, children) ==
  [uri |-> uri, tag |-> tag, text |-> text, children |-> children]
Container(name, li) == [name |-> name, li |-> li]

\* the dc:title elements tried: none, an Alt with and without x-default, a
\* plain text, an empty plain element, a Seq
TitleEls ==
  << <<>>,
     <<El(URI_DC, "title", None,
          <<Container("Alt", <<Li(Str(s_en), Str(s_plain)),
                               Li(x_default, Str(s_x_title))>>)>>)>>,
     <<El(URI_DC, "title", None,
          <<Container("Alt", <<Li(Str(s_en), Str(s_plain))>>)>>)>>,
     <<El(URI_DC, "title", Str(s_plain), <<>>)>>,
     <<El(URI_DC, "title", None, <<>>)>>,
     <<El(URI_DC, "title", None,
          <<Container("Seq", <<Li(None, Str(s_plain))>>)>>)>> >>

\* the dc:creator elements tried: none, lists of two, four (one entry empty),
\* one and no names, a whitespace-only name, a plain text, an empty plain
\* element, an Alt
CreatorEls ==
  << <<>>,
     <<El(URI_DC, "creator", None,
          <<Container("Seq", <<Li(None, Str(s_jane_doe)),
                               Li(None, Str(s_bob_ray))>>)>>)>>,
     <<El(URI_DC, "creator", None,
          <<Container("Bag", <<Li(None, Str(s_ann_lee)), Li(None, None),
                               Li(None, Str(s_bob_ray)),
                               Li(None, Str(s_ed_poe))>>)>>)>>,
     <<El(URI_DC, "creator", None,
          <<Container("Seq", <<Li(None, Str(s_jane_doe))>>)>>)>>,
     <<El(URI_DC, "creator", None,
          <<Container("Seq", <<Li(None, None)>>)>>)>>,
     <<El(URI_DC, "creator", None,
          <<Container("Seq", <<Li(None, Str(<<" ">>))>>)>>)>>,
     <<El(URI_DC, "creator", Str(s_ann_lee), <<>>)>>,
     <<El(URI_DC, "creator", None, <<>>)>>,
     <<El(URI_DC, "creator", None,
          <<Container("Alt", <<Li(x_default, Str(s_ann_lee))>>)>>)>> >>

Packet(wellformed, rdf, descs) ==
  [wellformed |-> wellformed, rdf |-> rdf, descs |-> descs]

NoPacket == Packet(FALSE, FALSE, <<>>)

\* two Description blocks that both set dc:title, an element of an unknown
\* namespace and one without a namespace
TwoBlocks ==
  Packet(TRUE, TRUE,
         << <<El(URI_DC, "title", Str(s_plain), <<>>),
              El("http://example.org/ns/", "note", Str(s_en), <<>>)>>,
            <<El(NoUri, "creator", Str(s_bob_ray), <<>>),
              El(URI_DC, "title", None,
                 <<Container("Alt", <<Li(x_default, Str(s_x_title))>>),
                   Container("Seq", <<Li(None, Str(s_en))>>)>>)>> >>)

Packets ==
  {Packet(FALSE, FALSE, <<>>), Packet(TRUE, FALSE, <<>>), TwoBlocks}
  \cup {Packet(TRUE, TRUE, <<TitleEls[i] \o CreatorEls[j]>>) :
          i \in DOMAIN TitleEls, j \in DOMAIN CreatorEls}

File(parse, info, has_metadata, xmp) ==
  [parse |-> parse, info |-> info, has_metadata |-> has_metadata,
   xmp |-> xmp, base |-> s_paper]

NoFile == File("none", <<>>, FALSE, NoPacket)

Infos == {InfoOf(TitleVals[i], AuthorVals[j]) :
            i \in DOMAIN TitleVals, j \in DOMAIN AuthorVals}

Files ==
  {File("PDFSyntaxError", <<>>, FALSE, NoPacket), File("ok", <<>>, FALSE, NoPacket)}
  \cup {File("ok", <<i>>, FALSE, NoPacket) : i \in Infos}
  \cup {File("ok", <<i>>, TRUE, p) : i \in Infos, p \in Packets}

(***************************************************************************)
(* main: the batch loop.  pc is the place in the loop; newf is the new     *)
(* file name without its directory.                                        *)
(***************************************************************************)
Init ==
  /\ pc = "loop"
  /\ is_author \in BOOLEAN
  /\ destination \in BOOLEAN
  /\ Ntot \in 0..MaxFiles
  /\ idx = 0
  /\ cur = NoFile
  /\ title = None /\ author = None /\ xmpt = None /\ xmpa = None
  /\ newf = <<>>
  /\ exc = "none"
  /\ Nmissing = 0 /\ Nfiled = 0 /\ Nerrors = 0 /\ Nrenamed = 0

\* line 236: the loop takes the next file
NextFile ==
  /\ pc = "loop" /\ idx < Ntot
  /\ idx' = idx + 1
  /\ cur' \in Files
  /\ pc' = "get_info"
  /\ UNCHANGED <<is_author, destination, Ntot, title, author, xmpt, xmpa,
                 newf, exc, Nmissing, Nfiled, Nerrors, Nrenamed>>

\* line 240: title, author = _get_info(f); an exception it raises is caught
\* nowhere and ends main
GetInfo ==
  /\ pc = "get_info"
  /\ \E r \in {_get_info(cur)} :
        /\ exc' = r.exc
        /\ title' = r.title /\ author' = r.author
        /\ xmpt' = r.xmpt /\ xmpa' = r.xmpa
        /\ pc' = IF r.exc = "none" THEN "name" ELSE "raised"
  /\ UNCHANGED <<is_author, destination, Ntot, idx, cur, newf,
                 Nmissing, Nfiled, Nerrors, Nrenamed>>

\* the locals of one iteration are dead once the loop goes on to the next
\* file: they are set back to their initial values
Forget ==
  /\ cur' = NoFile
  /\ title' = None /\ author' = None /\ xmpt' = None /\ xmpa' = None
  /\ newf' = <<>>

\* lines 242-251
NewName ==
  /\ pc = "name"
  /\ LET title2 == IF truthy(author) /\ ~truthy(title) THEN Str(cur.base) ELSE title
     IN IF ~(truthy(author) \/ truthy(title2))
        THEN /\ Nmissing' = Nmissing + 1
             /\ pc' = "loop"
             /\ Forget
        ELSE /\ title' = title2
             /\ newf' = IF is_author THEN _new_filename(title2.val, author)
                        ELSE _new_filename(title2.val, None)
             /\ pc' = "rename"
             /\ UNCHANGED <<Nmissing, cur, author, xmpt, xmpa>>
  /\ UNCHANGED <<is_author, destination, Ntot, idx, exc, Nfiled, Nerrors, Nrenamed>>

\* the continue of line 258 left out: a failed rename goes on to the move
Rename_mut ==
  /\ pc = "rename"
  /\ \E ok \in BOOLEAN :
       /\ IF ok
          THEN Nrenamed' = Nrenamed + 1 /\ UNCHANGED Nerrors
          ELSE Nerrors' = Nerrors + 1 /\ UNCHANGED Nrenamed
       /\ IF destination
          THEN pc' = "mv" /\ UNCHANGED <<cur, title, author, xmpt, xmpa, newf>>
          ELSE pc' = "loop" /\ Forget
  /\ UNCHANGED <<is_author, destination, Ntot, idx, exc, Nmissing, Nfiled>>

\* lines 253-260: os.rename succeeds or raises OSError
Rename ==
  /\ pc = "rename"
  /\ \E ok \in BOOLEAN :
       IF ok
       THEN /\ Nrenamed' = Nrenamed + 1
            /\ UNCHANGED Nerrors
            /\ IF destination
               THEN pc' = "mv" /\ UNCHANGED <<cur, title, author, xmpt, xmpa, newf>>
               ELSE pc' = "loop" /\ Forget
       ELSE /\ Nerrors' = Nerrors + 1
            /\ UNCHANGED Nrenamed
            /\ pc' = "loop" /\ Forget
  /\ UNCHANGED <<is_author, destination, Ntot, idx, exc, Nmissing, Nfiled>>

\* lines 262-269: mv returns 0 or another status
Move ==
  /\ pc = "mv"
  /\ \E status \in {0, 1} :
       IF status = 0
       THEN Nfiled' = Nfiled + 1 /\ UNCHANGED Nerrors
       ELSE Nerrors' = Nerrors + 1 /\ UNCHANGED Nfiled
  /\ pc' = "loop" /\ Forget
  /\ UNCHANGED <<is_author, destination, Ntot, idx, exc, Nmissing, Nrenamed>>

\* lines 270-275: the loop is over, the totals are printed
Report ==
  /\ pc = "loop" /\ idx = Ntot
  /\ pc' = "done"
  /\ UNCHANGED <<is_author, destination, Ntot, idx, cur, title, author,
                 xmpt, xmpa, newf, exc, Nmissing, Nfiled, Nerrors, Nrenamed>>

Next == NextFile \/ GetInfo \/ NewName \/ Rename \/ Move \/ Report

Spec == Init /\ [][Next]_vars

(***************************************************************************)
(* _new_filename called on its own: the title and the author are drawn,    *)
(* the call returns the name in newf.                                      *)
(***************************************************************************)
NFChars == {"a", "B", " ", ":", "/", "\t"}

SeqsUpTo(C, n) == UNION {[1..k -> C] : k \in 0..n}

\* n characters of the pattern pat, repeated
Rep(pat, n) == [i \in 1..n |-> pat[((i - 1) % Len(pat)) + 1]]

LongLens == (NameLimit - LongPad)..(NameLimit + LongPad)

NFTitles ==
  SeqsUpTo(NFChars, MaxTitleLen)
  \cup {s_hello_world, s_quantum_foo, s_foo_bar}
  \cup {Rep(pat, n) : pat \in {<<"a">>, <<"A", "b", " ">>, <<"/", "x">>}, n \in LongLens}
  \cup {Rep(<<"a", ":", "B">>, HugeTitleLen)}

NFAuthors ==
  {None, Str(<<>>), Str(s_jane_doe), Str(s_a_smith), Str(<<" ", "x", "/", "Y", "\t">>),
   Str(Rep(<<"Z", "z">>, NameLimit + 1))}

InitNF ==
  /\ pc = "call"
  /\ title \in {Str(t) : t \in NFTitles}
  /\ author \in NFAuthors
  /\ newf = <<>>
  /\ is_author = TRUE /\ destination = FALSE
  /\ Ntot = 0 /\ idx = 0 /\ cur = NoFile
  /\ xmpt = None /\ xmpa = None /\ exc = "none"
  /\ Nmissing = 0 /\ Nfiled = 0 /\ Nerrors = 0 /\ Nrenamed = 0

CallNewFilename ==
  /\ pc = "call"
  /\ newf' = _new_filename(title.val, author)
  /\ pc' = "returned"
  /\ UNCHANGED <<is_author, destination, Ntot, idx, cur, title, author,
                 xmpt, xmpa, exc, Nmissing, Nfiled, Nerrors, Nrenamed>>

NextNF == CallNewFilename

SpecNewFilename == InitNF /\ [][NextNF]_vars

EndsWith(s, suffix) ==
  Len(s) >= Len(suffix) /\ SubSeq(s, Len(s) - Len(suffix) + 1, Len(s)) = suffix

\* C3: every name _new_filename returns ends in ".pdf" and has at most 254
\* characters, whatever the length of the title and the author
C3_EndsInPdfAtMost254 ==
  pc = "returned" => EndsWith(newf, Ext) /\ Len(newf) <= 254

\* a title and an author that together exceed the limit were cut
C3_Witness ==
  /\ pc = "returned"
  /\ ~IsNone(author) /\ Len(author.val) > 0
  /\ Len(title.val) > NameLimit
  /\ Len(newf) = 254

\* C4: every name _new_filename returns is lowercase and made only of
\* alphanumerics, spaces, '.', '_', '-' and the em-dash
C4_OnlyKeptLowercaseChars ==
  pc = "returned" =>
    \A i \in DOMAIN newf : Kept(newf[i]) /\ ~isupper(newf[i])

\* a title is made of words separated by single spaces: no piece between two
\* spaces is empty and every other character is alphanumeric
IsWords(s) ==
  /\ s # <<>>
  /\ \A i \in DOMAIN s : s[i] = " " \/ isalnum(s[i])
  /\ s[1] # " " /\ s[Len(s)] # " "
  /\ \A i \in 1..(Len(s) - 1) : ~(s[i] = " " /\ s[i + 1] = " ")

\* an author of the form "First Last"
IsFirstLast(s) == IsWords(s) /\ Cardinality({i \in DOMAIN s : s[i] = " "}) = 1

\* the lowercased words joined by '-', character by character
DashJoined(s) ==
  [i \in DOMAIN s |->
     IF s[i] = " " THEN "-"
     ELSE IF isupper(s[i])
     THEN LowerCase[CHOOSE k \in DOMAIN UpperCase : UpperCase[k] = s[i]]
     ELSE s[i]]

\* the lowercased characters after the only space of a "First Last"
LastOf(s) ==
  LET sp == CHOOSE i \in DOMAIN s : s[i] = " "
  IN SubSeq(DashJoined(s), sp + 1, Len(s))

\* C5 as stated: a title of words gives the dash-joined lowercase words and
\* ".pdf"; with an author "First Last" the name is "<last>.<title>.pdf"
C5_Original ==
  (pc = "returned" /\ IsWords(title.val)) =>
    /\ IsNone(author) => newf = DashJoined(title.val) \o Ext
    /\ (~IsNone(author) /\ IsFirstLast(author.val)) =>
         newf = LastOf(author.val) \o <<".">> \o DashJoined(title.val) \o Ext

\* C5 amended: the name is the first 250 characters of the dash-joined
\* lowercase words, with an author "First Last" of
\* "<first last>.<dash-joined words>" (the whole author in lowercase),
\* followed by ".pdf"
C5_Amended ==
  (pc = "returned" /\ IsWords(title.val)) =>
    /\ IsNone(author) =>
         newf = SubSeq(DashJoined(title.val), 1,
                       IF Len(title.val) < 250 THEN Len(title.val) ELSE 250) \o Ext
    /\ (~IsNone(author) /\ IsFirstLast(author.val)) =>
         LET whole == [i \in DOMAIN author.val |->
                         IF author.val[i] = " " THEN " "
                         ELSE DashJoined(author.val)[i]]
                      \o <<".">> \o DashJoined(title.val)
         IN newf = SubSeq(whole, 1, IF Len(whole) < 250 THEN Len(whole) ELSE 250)
                   \o Ext

\* ("Hello World", "Jane Doe") gave "jane doe.hello-world.pdf"
C5_Witness ==
  /\ pc = "returned"
  /\ title = Str(s_hello_world) /\ author = Str(s_jane_doe)
  /\ newf = <<"j","a","n","e"," ","d","o","e",".",
              "h","e","l","l","o","-","w","o","r","l","d",".","p","d","f">>

(***************************************************************************)
(* Properties of the batch loop and of _get_info, under Spec.              *)
(***************************************************************************)
\* the file has a document with a non-empty info list
HasInfo(f) == f.parse = "ok" /\ Len(f.info) > 0

\* the document-info values of the file, decoded
BaseTitle(f) == InfoField(f.info[1], "Title")
BaseAuthor(f) == InfoField(f.info[1], "Author")

\* the last whitespace-delimited token of a name, <<>> when it has none
LastTokenOf(s) ==
  LET body == {i \in DOMAIN s : ~isspace(s[i])}
  IN IF body = {} THEN <<>>
     ELSE LET e == CHOOSE i \in body : \A j \in body : j <= i
              b == CHOOSE i \in 1..e :
                     /\ \A j \in i..e : ~isspace(s[j])
                     /\ (i = 1 \/ isspace(s[i - 1]))
          IN SubSeq(s, b, e)

\* C1: no file's failure stops the batch: main never ends by an exception
\* before the final report
C1_NoFileStopsBatch == pc # "raised"

\* C2: for a file whose PDF cannot be parsed or whose info list is empty,
\* _get_info returns (None, None) without raising, and main then counts the
\* file as missing and leaves the renamed and errors counters alone
C2_NoInfoCountedMissing ==
  [][/\ (pc = "get_info" /\ ~HasInfo(cur)) =>
          (exc' = "none" /\ pc' = "name" /\ IsNone(title') /\ IsNone(author'))
     /\ (pc = "name" /\ ~HasInfo(cur)) =>
          (Nmissing' = Nmissing + 1 /\ pc' = "loop"
           /\ UNCHANGED <<Nrenamed, Nerrors>>)]_vars

\* the title after trimming, as C6 and C9 state it
Trimmed(t) == IF IsNone(t) THEN t ELSE Str(strip(t.val))

\* the file's XMP step ran and returned
XmpReturned == pc = "name" /\ HasInfo(cur) /\ cur.has_metadata

\* C6 as stated: an XMP field that is absent leaves the document-info value
\* of that field in place, the title after trimming
C6_Original ==
  XmpReturned =>
    /\ ~truthy(xmpa) => author = BaseAuthor(cur)
    /\ ~truthy(xmpt) => title = Trimmed(BaseTitle(cur))

\* C6 amended: as stated, except that a document-info title that is
\* "untitled" after trimming (in any case) is resolved to None
C6_Amended ==
  XmpReturned =>
    /\ ~truthy(xmpa) => author = BaseAuthor(cur)
    /\ ~truthy(xmpt) =>
         IF ~IsNone(BaseTitle(cur)) /\ lower(strip(BaseTitle(cur).val)) = untitled
         THEN IsNone(title)
         ELSE title = Trimmed(BaseTitle(cur))

\* the XMP step gave a title and no author, and the document-info author
\* stood
C6_Witness ==
  /\ XmpReturned
  /\ truthy(xmpt) /\ ~truthy(xmpa)
  /\ title = Str(s_x_title)
  /\ author = Str(s_a_smith)

\* the dc:creator value of the file's packet is a list
CreatorIsList(f) ==
  /\ HasInfo(f) /\ f.has_metadata
  /\ xmp_to_dict(f.xmp).ok
  /\ HasField(xmp_to_dict(f.xmp).meta, "creator")
  /\ xmp_to_dict(f.xmp).meta["dc"]["creator"].type = "list"

\* the non-empty names of the dc:creator list
CreatorNames(f) == SelectSeq(xmp_to_dict(f.xmp).meta["dc"]["creator"].items, truthy)

\* C7: the author of a dc:creator list is None when no non-empty name
\* remains, the last token of the only name, or the last tokens of the first
\* and the last name, for every non-empty name
C7_AuthorCollapse ==
  (pc \in {"name", "raised"} /\ CreatorIsList(cur)) =>
    LET names == CreatorNames(cur)
    IN /\ exc = "none"
       /\ Len(names) = 0 => IsNone(xmpa)
       /\ Len(names) = 1 => xmpa = Str(LastTokenOf(names[1].val))
       /\ Len(names) >= 2 =>
            xmpa = Str(LastTokenOf(names[1].val) \o <<" ">>
                       \o LastTokenOf(names[Len(names)].val))

\* handling the packet raises: it is not well-formed, has no rdf:RDF, or its
\* dc:creator is an empty plain element
XmpRaises(f) ==
  \/ ~f.xmp.wellformed
  \/ ~f.xmp.rdf
  \/ /\ HasField(xmp_to_dict(f.xmp).meta, "creator")
     /\ IsNone(xmp_to_dict(f.xmp).meta["dc"]["creator"])

\* C8: when handling the XMP packet raises, _get_info does not raise and
\* returns the document-info title and author
C8_XmpFailureFallsBack ==
  (pc \in {"name", "raised"} /\ HasInfo(cur) /\ cur.has_metadata /\ XmpRaises(cur)) =>
    /\ exc = "none"
    /\ author = BaseAuthor(cur)
    /\ title = TitleCleanup(BaseTitle(cur))

\* the file has no metadata stream and its Title and Author decode
BothDecoded(f) ==
  /\ HasInfo(f) /\ ~f.has_metadata
  /\ ~IsNone(BaseTitle(f)) /\ ~IsNone(BaseAuthor(f))

C10_Original == pc = "done" => Ntot = Nrenamed + Nmissing + Nerrors

\* C10 amended: without a destination the total is renamed + missing +
\* errors; with one, a failed move counts its file in errors as well as in
\* renamed, and the total is filed + missing + errors; a move is attempted
\* only right after a rename that succeeded
C10_Amended ==
  /\ [](pc = "done" =>
          /\ ~destination => Ntot = Nrenamed + Nmissing + Nerrors
          /\ destination => Ntot = Nfiled + Nmissing + Nerrors
          /\ Nfiled <= Nrenamed)
  /\ [][pc' = "mv" => (pc = "rename" /\ Nrenamed' = Nrenamed + 1)]_vars

\* a batch with a destination ended with a renamed file whose move failed
C10_Witness ==
  /\ pc = "done" /\ destination
  /\ Ntot = 2 /\ Nrenamed = 2 /\ Nfiled = 1 /\ Nerrors = 1 /\ Nmissing = 0

====
